---- MODULE Spec2Model ----
(***************************************************************************)
(* Model of the trading dashboard's backtest core (src/src/backtest.py).   *)
(*                                                                         *)
(* run_backtest is modelled statement block by statement block: column     *)
(* normalisation and validation, date sort and NaN filter, the derived     *)
(* columns, the search for the first non-zero signal, one action per       *)
(* iteration of the trade scan, the forced close of the last trade and the *)
(* return.  Floating point values are modelled as exact rationals          *)
(* <<numerator, denominator>> in lowest terms with a positive denominator. *)
(* Row indices are 0-based as in the source; At(s, k) reads s[k].          *)
(*                                                                         *)
(* The metrics layer (src/src/metrics.py) is modelled as operators, and    *)
(* the dashboard script (src/app.py) as the actions of one run: load the   *)
(* upload, run the backtest, compute the three metric mappings, render the *)
(* KPI row, the charts, the detail tables and the breakdowns, or report    *)
(* the exception.  Spec is one call of run_backtest, AppSpec one run of    *)
(* the dashboard, MetricsSpec one direct call of calculate_metrics.        *)
(***************************************************************************)
EXTENDS Integers, Sequences, FiniteSets, TLC

VARIABLES caller, df, initial_capital, leverage, pc, error, result,
          trades, i, first_idx, trade_type, trade_start_idx,
          trade_start_equity, start_date

\* the dashboard run, and the argument of a direct call of calculate_metrics
VARIABLES upload_ok, annual_factor, risk_free_rate, app_pc, strat_metrics,
          asset_metrics, trade_metrics, emitted, series

vars == <<caller, df, initial_capital, leverage, pc, error, result,
          trades, i, first_idx, trade_type, trade_start_idx,
          trade_start_equity, start_date,
          upload_ok, annual_factor, risk_free_rate, app_pc, strat_metrics,
          asset_metrics, trade_metrics, emitted, series>>

appVars == <<upload_ok, annual_factor, risk_free_rate, app_pc, strat_metrics,
             asset_metrics, trade_metrics, emitted, series>>

(***************************************************************************)
(* Bounds of the model.                                                    *)
(***************************************************************************)
MaxLen == 3

SmallLen == 2

(***************************************************************************)
(* Exact rational arithmetic standing in for float64.                      *)
(***************************************************************************)
Abs(x) == IF x < 0 THEN -x ELSE x

RECURSIVE GCD(_, _)
GCD(a, b) == IF b = 0 THEN a ELSE GCD(b, a % b)

Norm(n, d) ==
    LET g == GCD(Abs(n), Abs(d))
        s == IF d < 0 THEN -1 ELSE 1
    IN  <<(s * n) \div g, (s * d) \div g>>

RInt(n) == <<n, 1>>

RAdd(a, b) == Norm(a[1] * b[2] + b[1] * a[2], a[2] * b[2])

RSub(a, b) == Norm(a[1] * b[2] - b[1] * a[2], a[2] * b[2])

RMul(a, b) == Norm(a[1] * b[1], a[2] * b[2])

RDiv(a, b) == Norm(a[1] * b[2], a[2] * b[1])

Zero == RInt(0)

One == RInt(1)

\* variant: a zero signal counted as long
SignZeroLong(x) == IF x >= 0 THEN 1 ELSE -1

\* np.sign of a float: 1, -1 or 0
Sign(x) == IF x > 0 THEN 1 ELSE IF x < 0 THEN -1 ELSE 0

At(s, k) == s[k + 1]

(***************************************************************************)
(* Input tables.  A table has a name for each of its three column slots    *)
(* (NoCol when the column is absent) and a sequence of rows; a forecast is *)
(* NaN or Val(v).                                                          *)
(***************************************************************************)
NoCol == "-"

NaN == <<>>

Val(v) == <<v>>

Closes == {2, 3}

Forecasts == {-10, 0, 5}

Leverages == {1, 5}

Capitals == {1000}

CanonicalColumns == [d |-> "date", c |-> "close", f |-> "forecast"]

ColumnChoices ==
    { CanonicalColumns,
      [d |-> "Date", c |-> "Close", f |-> "forecast"],
      [d |-> "timestamp", c |-> "close", f |-> "forecast"],
      [d |-> NoCol, c |-> "close", f |-> "forecast"],
      [d |-> "date", c |-> NoCol, f |-> "forecast"],
      [d |-> "date", c |-> "close", f |-> NoCol] }

\* the n dates of an input, ascending or descending in file order
DateOrders(n) == { [k \in 1..n |-> k], [k \in 1..n |-> n + 1 - k] }

InputRows ==
    UNION { { [k \in 1..n |-> [date |-> ds[k], close |-> cs[k], forecast |-> fs[k]]] :
                ds \in DateOrders(n),
                cs \in [1..n -> Closes],
                fs \in [1..n -> {NaN} \cup {Val(v) : v \in Forecasts}] } :
            n \in 1..MaxLen }

\* str.lower on a column name
Lower(name) ==
    CASE name = "Date" -> "date"
      [] name = "Close" -> "close"
      [] OTHER -> name

LowerColumns(cols) == [s \in DOMAIN cols |-> Lower(cols[s])]

\* 'name' in df.columns
HasColumn(cols, name) == \E s \in DOMAIN cols : cols[s] = name

(***************************************************************************)
(* df.sort_values('date').reset_index(drop=True)                           *)
(***************************************************************************)
RECURSIVE SortByDate(_)
SortByDate(rows) ==
    IF rows = <<>> THEN <<>>
    ELSE LET m == CHOOSE k \in 1..Len(rows) :
                    \A j \in 1..Len(rows) :
                        \/ rows[k].date < rows[j].date
                        \/ (rows[k].date = rows[j].date /\ k <= j)
             rest == [j \in 1..(Len(rows) - 1) |->
                        IF j < m THEN rows[j] ELSE rows[j + 1]]
         IN  <<rows[m]>> \o SortByDate(rest)

\* df[df['forecast'].notna()].reset_index(drop=True)
RECURSIVE DropNa(_)
DropNa(rows) ==
    IF rows = <<>> THEN <<>>
    ELSE IF Head(rows).forecast = NaN THEN DropNa(Tail(rows))
    ELSE <<Head(rows)>> \o DropNa(Tail(rows))

\* lines 30-34: the rows the simulation runs on
Prepared(cols, rows) ==
    DropNa(IF HasColumn(cols, "date") THEN SortByDate(rows) ELSE rows)

\* variant: the emptiness check left out
EmptyNever(rows) == FALSE

\* df.empty
Empty(rows) == rows = <<>>

(***************************************************************************)
(* Derived columns, src/src/backtest.py lines 40-54.                       *)
(***************************************************************************)
\* df['close'].pct_change().fillna(0)
AssetReturn(rows) ==
    [k \in 1..Len(rows) |->
        IF k = 1 THEN Zero
        ELSE RSub(RDiv(RInt(rows[k].close), RInt(rows[k - 1].close)), One)]

\* variant: the position clamped to one unit of exposure
PositionClamped(rows, lev) ==
    [k \in 1..Len(rows) |->
        LET f == rows[k].forecast[1] * lev
        IN  IF f > 10 THEN One ELSE IF f < -10 THEN RInt(-1)
            ELSE RDiv(RInt(f), RInt(10))]

\* (df['forecast'] / 10.0) * leverage
Position(rows, lev) ==
    [k \in 1..Len(rows) |->
        RMul(RDiv(RInt(rows[k].forecast[1]), RInt(10)), RInt(lev))]

\* variant: the position used without the one-period lag
ShiftedPositionNoLag(position) == position

\* df['position'].shift(1).fillna(0)
ShiftedPosition(position) ==
    [k \in 1..Len(position) |-> IF k = 1 THEN Zero ELSE position[k - 1]]

\* df['asset_return'] * df['shifted_position']
StrategyReturn(asset_return, shifted) ==
    [k \in 1..Len(asset_return) |-> RMul(asset_return[k], shifted[k])]

\* variant: the growth factors not multiplied up
CumProdNoCompound(returns) ==
    [k \in 1..Len(returns) |-> RAdd(One, returns[k])]

\* (1 + returns).cumprod()
RECURSIVE CumProd(_)
CumProd(returns) ==
    IF returns = <<>> THEN <<>>
    ELSE LET n == Len(returns)
             front == CumProd(SubSeq(returns, 1, n - 1))
             g == RAdd(One, returns[n])
         IN  Append(front, IF n = 1 THEN g ELSE RMul(front[n - 1], g))

\* initial_capital * (1 + returns).cumprod()
Equity(cap, returns) ==
    LET cp == CumProd(returns)
    IN  [k \in 1..Len(returns) |-> RMul(RInt(cap), cp[k])]

AddColumns(rows, cap, lev) ==
    LET ar == AssetReturn(rows)
        pos == Position(rows, lev)
        sh == ShiftedPosition(pos)
        sr == StrategyReturn(ar, sh)
        ae == Equity(cap, ar)
        se == Equity(cap, sr)
    IN  [k \in 1..Len(rows) |->
            [date |-> rows[k].date,
             close |-> rows[k].close,
             forecast |-> rows[k].forecast[1],
             asset_return |-> ar[k],
             position |-> pos[k],
             shifted_position |-> sh[k],
             strategy_return |-> sr[k],
             asset_equity |-> ae[k],
             strategy_equity |-> se[k]]]

(***************************************************************************)
(* Views of the finished table used by the trade scan, lines 80-82.        *)
(***************************************************************************)
equity_curve == [k \in 1..Len(df.rows) |-> df.rows[k].strategy_equity]

dates == [k \in 1..Len(df.rows) |-> df.rows[k].date]

signs == [k \in 1..Len(df.rows) |-> Sign(df.rows[k].forecast)]

\* np.argmax(signs != 0): the first index holding True, 0 when there is none
ArgMaxNonZero(sg) ==
    IF \E k \in 1..Len(sg) : sg[k] # 0
    THEN (CHOOSE k \in 1..Len(sg) :
            sg[k] # 0 /\ \A j \in 1..(k - 1) : sg[j] = 0) - 1
    ELSE 0

\* the record appended to trades at lines 144-151 and 166-173
TradeRecord(sd, ed, tt, exit_equity, start_equity, dur) ==
    [start_date |-> sd,
     end_date |-> ed,
     type |-> IF tt > 0 THEN "Long" ELSE "Short",
     pnl |-> RSub(RDiv(exit_equity, start_equity), One),
     pnl_abs |-> RSub(exit_equity, start_equity),
     duration |-> dur]

\* variant: the exit equity of line 134, one row early
ClosedTradeExitBefore(k) ==
    TradeRecord(start_date, At(dates, k), trade_type, At(equity_curve, k - 1),
                trade_start_equity, k - trade_start_idx)

\* variant: the trade ended on the row before the sign change
ClosedTradeEndBefore(k) ==
    TradeRecord(start_date, At(dates, k - 1), trade_type, At(equity_curve, k),
                trade_start_equity, k - trade_start_idx)

\* lines 140-151: the trade closed by a sign change at row k
ClosedTrade(k) ==
    TradeRecord(start_date, At(dates, k), trade_type, At(equity_curve, k),
                trade_start_equity, k - trade_start_idx)

\* lines 163-173: the open trade closed at the final row
LastTrade ==
    TradeRecord(start_date, At(dates, Len(df.rows) - 1), trade_type,
                At(equity_curve, Len(df.rows) - 1), trade_start_equity,
                Len(df.rows) - trade_start_idx)

(***************************************************************************)
(* Values of the metrics layer.  A metric value is a record: a rational    *)
(* number, NaN, +infinity, or one of the irrational forms the formulas     *)
(* produce, kept symbolically:                                             *)
(*   sqrt       sqrt(a)                 over_sqrt  a / sqrt(b)             *)
(*   pow        a ** b - 1              pow_over   (a ** b - 1) / c        *)
(***************************************************************************)
Num(r) == [kind |-> "num", a |-> r, b |-> One, c |-> One]

NaNf == [kind |-> "nan", a |-> Zero, b |-> Zero, c |-> Zero]

PosInf == [kind |-> "inf", a |-> One, b |-> Zero, c |-> One]

\* x != 0 on a float: NaN and every non-zero number are "not zero"
IsZero(x) == x.kind = "num" /\ x.a = Zero

\* np.sqrt(r) for a rational r >= 0
Sqrt(r) == IF r = Zero THEN Num(Zero)
           ELSE [kind |-> "sqrt", a |-> r, b |-> One, c |-> One]

RLess(a, b) == a[1] * b[2] < b[1] * a[2]

RAbs(a) == <<Abs(a[1]), a[2]>>

\* x * np.sqrt(f) for a standard deviation x = sqrt(variance) or NaN
ScaleStd(x, f) == IF x.kind = "nan" THEN NaNf ELSE Sqrt(RMul(x.a, RInt(f)))

\* x / y for a rational or NaN x and a deviation y that is not zero
DivByStd(x, y) ==
    IF x.kind = "nan" \/ y.kind = "nan" THEN NaNf
    ELSE IF x.a = Zero THEN Num(Zero)
    ELSE [kind |-> "over_sqrt", a |-> x.a, b |-> y.a, c |-> One]

\* base ** ex - 1 for rationals base and ex > 0;
\* a negative base gives NaN unless the exponent is a whole number
PowM1(base, ex) ==
    IF base = One THEN Num(Zero)
    ELSE IF base = Zero THEN Num(RInt(-1))
    ELSE IF base[1] < 0 /\ ex[2] # 1 THEN NaNf
    ELSE IF base = RInt(-1)
    THEN (IF ex[1] % 2 = 0 THEN Num(Zero) ELSE Num(RInt(-2)))
    ELSE [kind |-> "pow",
          a |-> IF ex[2] = 1 /\ ex[1] % 2 = 0 THEN RAbs(base) ELSE base,
          b |-> ex, c |-> One]

\* x / abs(m) for a growth rate x and a drawdown m that is not zero
DivByAbs(x, m) ==
    IF m.kind = "nan" \/ x.kind = "nan" THEN NaNf
    ELSE IF x.kind = "num" THEN Num(RDiv(x.a, RAbs(m.a)))
    ELSE [kind |-> "pow_over", a |-> x.a, b |-> x.b, c |-> RAbs(m.a)]

(***************************************************************************)
(* pandas reductions over a sequence of rationals.                         *)
(***************************************************************************)
RECURSIVE RSum(_)
RSum(xs) == IF xs = <<>> THEN Zero ELSE RAdd(Head(xs), RSum(Tail(xs)))

\* (1 + returns).prod()
RECURSIVE GrowthProd(_)
GrowthProd(xs) ==
    IF xs = <<>> THEN One
    ELSE RMul(RAdd(One, Head(xs)), GrowthProd(Tail(xs)))

\* variant: the returns added up instead of compounded
TotalReturnOfSum(returns) == RSum(returns)

\* (1 + returns).prod() - 1
TotalReturn(returns) == RSub(GrowthProd(returns), One)

\* Series.mean(): NaN for an empty series
Mean(xs) ==
    IF xs = <<>> THEN NaNf ELSE Num(RDiv(RSum(xs), RInt(Len(xs))))

\* Series.std() squared (ddof = 1): NaN for fewer than two values
Std(xs) ==
    IF Len(xs) < 2 THEN NaNf
    ELSE LET m == RDiv(RSum(xs), RInt(Len(xs)))
             sq == [k \in 1..Len(xs) |->
                        RMul(RSub(xs[k], m), RSub(xs[k], m))]
         IN  Sqrt(RDiv(RSum(sq), RInt(Len(xs) - 1)))

IsNegative(x) == RLess(x, Zero)

IsPositive(x) == RLess(Zero, x)

\* Series.cummax()
RECURSIVE CumMax(_)
CumMax(xs) ==
    IF xs = <<>> THEN <<>>
    ELSE LET n == Len(xs)
             front == CumMax(SubSeq(xs, 1, n - 1))
         IN  Append(front,
                    IF n = 1 \/ RLess(front[n - 1], xs[n])
                    THEN xs[n] ELSE front[n - 1])

\* the values in ascending order
RECURSIVE Sorted(_)
Sorted(xs) ==
    IF xs = <<>> THEN <<>>
    ELSE LET m == CHOOSE k \in 1..Len(xs) :
                    \A j \in 1..Len(xs) : ~RLess(xs[j], xs[k])
             rest == [j \in 1..(Len(xs) - 1) |->
                        IF j < m THEN xs[j] ELSE xs[j + 1]]
         IN  <<xs[m]>> \o Sorted(rest)

\* Series.quantile(q) for q = qn/qd, linear interpolation
Quantile(xs, qn, qd) ==
    IF xs = <<>> THEN NaNf
    ELSE LET srt == Sorted(xs)
             lo == ((Len(xs) - 1) * qn) \div qd
             frac == Norm(((Len(xs) - 1) * qn) % qd, qd)
         IN  IF frac = Zero THEN Num(srt[lo + 1])
             ELSE Num(RAdd(srt[lo + 1],
                           RMul(frac, RSub(srt[lo + 2], srt[lo + 1]))))

(***************************************************************************)
(* calculate_metrics, src/src/metrics.py lines 5-65.                       *)
(***************************************************************************)
ANNUAL_FACTOR == 756

\* len(returns) / periods
Years(returns, periods) == Norm(Len(returns), periods)

\* (1 + total_return) ** (1 / n_years) - 1 if n_years > 0 else 0
Cagr(returns, periods) ==
    IF RLess(Zero, Years(returns, periods))
    THEN PowM1(GrowthProd(returns), RDiv(One, Years(returns, periods)))
    ELSE Num(Zero)

\* returns.mean() * periods
MeanAnnual(returns, periods) ==
    IF returns = <<>> THEN NaNf
    ELSE Num(RMul(Mean(returns).a, RInt(periods)))

\* returns.std() * np.sqrt(periods)
Volatility(returns, periods) == ScaleStd(Std(returns), periods)

\* mean_return - risk_free_rate
Excess(mean_return, rfr) ==
    IF mean_return.kind = "nan" THEN NaNf ELSE Num(RSub(mean_return.a, rfr))

\* (mean_return - risk_free_rate) / deviation if deviation != 0 else 0
RatioOrZero(mean_return, rfr, deviation) ==
    IF ~IsZero(deviation) THEN DivByStd(Excess(mean_return, rfr), deviation)
    ELSE Num(Zero)

\* (cum_returns - peak) / peak; a peak of 0 is reached only by a series of
\* returns >= -1 that starts with -1, whose cum_returns are 0: 0/0 is NaN
Drawdown(returns) ==
    LET cum == CumProd(returns)
        peak == CumMax(cum)
    IN  [k \in 1..Len(returns) |->
            IF peak[k] = Zero THEN NaNf
            ELSE Num(RDiv(RSub(cum[k], peak[k]), peak[k]))]

\* the rational values of a drawdown series, NaN skipped
Defined(dd) ==
    LET nums == SelectSeq(dd, LAMBDA x : x.kind = "num")
    IN  [k \in 1..Len(nums) |-> nums[k].a]

\* drawdown.min()
MaxDrawdown(returns) ==
    LET vals == Defined(Drawdown(returns))
    IN  IF vals = <<>> THEN NaNf ELSE Num(Sorted(vals)[1])

\* drawdown[drawdown < 0].mean()
AvgDrawdown(returns) ==
    Mean(SelectSeq(Defined(Drawdown(returns)), IsNegative))

\* cagr / abs(max_drawdown) if max_drawdown != 0 else 0
Calmar(cagr, max_drawdown) ==
    IF ~IsZero(max_drawdown) THEN DivByAbs(cagr, max_drawdown) ELSE Num(Zero)

calculate_metrics(returns, rfr) ==
    LET mean_return == MeanAnnual(returns, ANNUAL_FACTOR)
        volatility == Volatility(returns, ANNUAL_FACTOR)
        downside_std == ScaleStd(Std(SelectSeq(returns, IsNegative)),
                                 ANNUAL_FACTOR)
        cagr == Cagr(returns, ANNUAL_FACTOR)
        max_drawdown == MaxDrawdown(returns)
    IN  ("Total Return" :> Num(TotalReturn(returns))) @@
        ("CAGR" :> cagr) @@
        ("Volatility" :> volatility) @@
        ("Sharpe Ratio" :> RatioOrZero(mean_return, rfr, volatility)) @@
        ("Sortino Ratio" :> RatioOrZero(mean_return, rfr, downside_std)) @@
        ("Calmar Ratio" :> Calmar(cagr, max_drawdown)) @@
        ("Max Drawdown" :> max_drawdown) @@
        ("Avg Drawdown" :> AvgDrawdown(returns)) @@
        ("CVaR (95%)" :> Quantile(returns, 5, 100))

\* the divisors of the divisions calculate_metrics performs on a series:
\* lines 29, 30, 35, 40, 45 and 50, a guarded division only when its guard
\* lets it run
MetricsDivisors(returns, rfr) ==
    LET years == Years(returns, ANNUAL_FACTOR)
        volatility == Volatility(returns, ANNUAL_FACTOR)
        downside_std == ScaleStd(Std(SelectSeq(returns, IsNegative)),
                                 ANNUAL_FACTOR)
        max_drawdown == MaxDrawdown(returns)
        peak == CumMax(CumProd(returns))
    IN  {Num(RInt(ANNUAL_FACTOR))}
        \cup (IF RLess(Zero, years) THEN {Num(years)} ELSE {})
        \cup (IF ~IsZero(volatility) THEN {volatility} ELSE {})
        \cup (IF ~IsZero(downside_std) THEN {downside_std} ELSE {})
        \cup {Num(peak[k]) : k \in 1..Len(returns)}
        \cup (IF ~IsZero(max_drawdown) THEN {max_drawdown} ELSE {})

(***************************************************************************)
(* calculate_trade_metrics, src/src/metrics.py lines 67-104.               *)
(***************************************************************************)
Column(ts, name) == [k \in 1..Len(ts) |-> ts[k][name]]

\* variant: the winners picked by the sign of pnl_abs
WinsByPnlAbs(trades_df) ==
    SelectSeq(trades_df, LAMBDA t : IsPositive(t.pnl_abs))

\* trades_df[trades_df['pnl'] > 0]
Wins(trades_df) == SelectSeq(trades_df, LAMBDA t : IsPositive(t.pnl))

\* trades_df[trades_df['pnl'] < 0]
Losses(trades_df) == SelectSeq(trades_df, LAMBDA t : IsNegative(t.pnl))

calculate_trade_metrics(trades_df) ==
    IF trades_df = <<>>
    THEN ("Total Trades" :> Num(Zero)) @@
         ("Win Rate" :> Num(Zero)) @@
         ("Avg Trade" :> Num(Zero)) @@
         ("Profit Factor" :> Num(Zero)) @@
         ("Expectancy" :> Num(Zero))
    ELSE LET wins == Wins(trades_df)
             losses == Losses(trades_df)
             num_trades == Len(trades_df)
             gross_profit == RSum(Column(wins, "pnl_abs"))
             gross_loss == RAbs(RSum(Column(losses, "pnl_abs")))
         IN  ("Total Trades" :> Num(RInt(num_trades))) @@
             ("Win Rate" :> Num(Norm(Len(wins), num_trades))) @@
             ("Avg Trade" :> Mean(Column(trades_df, "pnl"))) @@
             ("Avg Win" :> IF wins # <<>> THEN Mean(Column(wins, "pnl"))
                           ELSE Num(Zero)) @@
             ("Avg Loss" :> IF losses # <<>> THEN Mean(Column(losses, "pnl"))
                            ELSE Num(Zero)) @@
             ("Avg Duration" :>
                 Num(Norm(RSum([k \in 1..num_trades |->
                                   RInt(trades_df[k].duration)])[1],
                          num_trades))) @@
             ("Profit Factor" :> IF gross_loss # Zero
                                 THEN Num(RDiv(gross_profit, gross_loss))
                                 ELSE PosInf)

\* nothing has been returned to the caller
NoResult == [returned |-> FALSE, rows |-> <<>>, trades |-> <<>>]

(***************************************************************************)
(* Initial state: the caller holds a table and calls run_backtest.         *)
(***************************************************************************)
\* an upload that pd.read_csv cannot read leaves no table
NoTable == [columns |-> [d |-> NoCol, c |-> NoCol, f |-> NoCol], rows |-> <<>>]

\* no mapping computed yet
NoMetrics == <<>>

\* no dashboard run: run_backtest or calculate_metrics is called directly
NoApp ==
    /\ upload_ok = TRUE
    /\ annual_factor = ANNUAL_FACTOR
    /\ risk_free_rate = Zero
    /\ app_pc = "none"
    /\ strat_metrics = NoMetrics
    /\ asset_metrics = NoMetrics
    /\ trade_metrics = NoMetrics
    /\ emitted = <<>>
    /\ series = <<>>

\* the locals of run_backtest at entry
BacktestEntry ==
    /\ df = caller
    /\ error = "none"
    /\ result = NoResult
    /\ trades = <<>>
    /\ i = 0
    /\ first_idx = 0
    /\ trade_type = 0
    /\ trade_start_idx = 0
    /\ trade_start_equity = RInt(initial_capital)
    /\ start_date = 0

Init ==
    /\ \E cols \in ColumnChoices, rows \in InputRows :
          /\ cols = CanonicalColumns \/ Len(rows) <= SmallLen
          /\ caller = [columns |-> cols, rows |-> rows]
    /\ NoApp
    /\ df = caller
    /\ initial_capital \in Capitals
    /\ leverage \in Leverages
    /\ pc = "validate"
    /\ error = "none"
    /\ result = NoResult
    /\ trades = <<>>
    /\ i = 0
    /\ first_idx = 0
    /\ trade_type = 0
    /\ trade_start_idx = 0
    /\ trade_start_equity = RInt(initial_capital)
    /\ start_date = 0

scanVars == <<trades, i, first_idx, trade_type, trade_start_idx,
              trade_start_equity, start_date>>

(***************************************************************************)
(* Lines 24-27: lower-case the column names of the table that was passed   *)
(* in (the caller's object), then require 'close' and 'forecast'.          *)
(***************************************************************************)
Validate ==
    /\ pc = "validate"
    /\ LET cols == LowerColumns(df.columns)
       IN  /\ caller' = [caller EXCEPT !.columns = cols]
           /\ df' = [df EXCEPT !.columns = cols]
           /\ IF ~HasColumn(cols, "close") \/ ~HasColumn(cols, "forecast")
              THEN pc' = "raised" /\ error' = "ValueError"
              ELSE pc' = "prepare" /\ error' = error
    /\ UNCHANGED <<initial_capital, leverage, result>>
    /\ UNCHANGED scanVars
    /\ UNCHANGED appVars

(***************************************************************************)
(* Lines 30-37: sort by 'date' when present, keep the rows whose forecast  *)
(* is defined, fail when none is left.  df is rebound to a new table.      *)
(***************************************************************************)
Prepare ==
    /\ pc = "prepare"
    /\ LET kept == Prepared(df.columns, df.rows)
       IN  /\ df' = [df EXCEPT !.rows = kept]
           /\ IF Empty(kept)
              THEN pc' = "raised" /\ error' = "ValueError"
              ELSE pc' = "compute" /\ error' = error
    /\ UNCHANGED <<caller, initial_capital, leverage, result>>
    /\ UNCHANGED scanVars
    /\ UNCHANGED appVars

(***************************************************************************)
(* Lines 40-54: the derived columns.                                       *)
(***************************************************************************)
Compute ==
    /\ pc = "compute"
    /\ df' = [df EXCEPT !.rows = AddColumns(df.rows, initial_capital, leverage)]
    /\ pc' = "find_first"
    /\ UNCHANGED <<caller, initial_capital, leverage, error, result>>
    /\ UNCHANGED scanVars
    /\ UNCHANGED appVars

(***************************************************************************)
(* Lines 60-126: df['date'] raises KeyError when there is no such column;  *)
(* otherwise locate the first non-zero sign and open the first trade.      *)
(***************************************************************************)
FindFirst ==
    /\ pc = "find_first"
    /\ IF ~HasColumn(df.columns, "date")
       THEN /\ pc' = "raised"
            /\ error' = "KeyError"
            /\ UNCHANGED scanVars
       ELSE LET fi == ArgMaxNonZero(signs)
            IN  /\ error' = error
                /\ first_idx' = fi
                /\ trades' = <<>>
                /\ IF At(signs, fi) = 0
                   THEN /\ pc' = "return"
                        /\ trade_start_idx' = 0
                        /\ trade_start_equity' = RInt(initial_capital)
                        /\ trade_type' = 0
                        /\ UNCHANGED <<i, start_date>>
                   ELSE /\ pc' = "scan"
                        /\ trade_start_idx' = fi
                        /\ trade_type' = At(signs, fi)
                        /\ trade_start_equity' =
                              IF fi = 0 THEN RInt(initial_capital)
                              ELSE At(equity_curve, fi - 1)
                        /\ start_date' = At(dates, fi)
                        /\ i' = fi + 1
    /\ UNCHANGED <<caller, df, initial_capital, leverage, result>>
    /\ UNCHANGED appVars

(***************************************************************************)
(* Lines 128-160: one iteration of the scan at row i.                      *)
(***************************************************************************)
ScanStep ==
    /\ pc = "scan"
    /\ i < Len(df.rows)
    /\ LET current_sign == At(signs, i)
           exit_equity == At(equity_curve, i)
       IN  IF current_sign # trade_type
           THEN /\ trades' = Append(trades, ClosedTrade(i))
                /\ IF current_sign # 0
                   THEN /\ trade_type' = current_sign
                        /\ trade_start_idx' = i
                        /\ start_date' = At(dates, i)
                        /\ trade_start_equity' = exit_equity
                   ELSE /\ trade_type' = 0
                        /\ UNCHANGED <<trade_start_idx, start_date,
                                       trade_start_equity>>
           ELSE UNCHANGED <<trades, trade_type, trade_start_idx, start_date,
                            trade_start_equity>>
    /\ i' = i + 1
    /\ UNCHANGED <<caller, df, initial_capital, leverage, pc, error, result,
                   first_idx>>
    /\ UNCHANGED appVars

(***************************************************************************)
(* Lines 162-173: after the loop, close the trade that is still open.      *)
(***************************************************************************)
CloseLast ==
    /\ pc = "scan"
    /\ i >= Len(df.rows)
    /\ IF trade_type # 0
       THEN trades' = Append(trades, LastTrade)
       ELSE trades' = trades
    /\ pc' = "return"
    /\ UNCHANGED <<caller, df, initial_capital, leverage, error, result,
                   i, first_idx, trade_type, trade_start_idx,
                   trade_start_equity, start_date>>
    /\ UNCHANGED appVars

(***************************************************************************)
(* Lines 175-177: return df, trades_df.                                    *)
(***************************************************************************)
Return ==
    /\ pc = "return"
    /\ pc' = "done"
    /\ result' = [returned |-> TRUE, rows |-> df.rows, trades |-> trades]
    /\ UNCHANGED <<caller, df, initial_capital, leverage, error>>
    /\ UNCHANGED scanVars
    /\ UNCHANGED appVars

Next ==
    \/ Validate
    \/ Prepare
    \/ Compute
    \/ FindFirst
    \/ ScanStep
    \/ CloseLast
    \/ Return

Spec == Init /\ [][Next]_vars

(***************************************************************************)
(* The dashboard run, src/app.py lines 43-106 and 562-566.                 *)
(***************************************************************************)
\* one element written to the page: st.markdown, st.plotly_chart,
\* st.dataframe, st.warning or st.error
Item(kind, text) == [kind |-> kind, text |-> text]

\* the values of the 'Annualization Factor' input tried (default 756)
AnnualFactors == {252, 756}

\* the uploads of the dashboard runs: well-formed tables in date order with
\* every forecast defined, and short tables of every kind
Uploads ==
    { [columns |-> cols, rows |-> rows] :
        cols \in ColumnChoices,
        rows \in { r \in InputRows :
                     \/ Len(r) < SmallLen
                     \/ \A k \in 1..Len(r) :
                           r[k].forecast # NaN /\ r[k].date = k } }

AppInit ==
    /\ \/ upload_ok = TRUE /\ caller \in Uploads
             /\ (caller.columns = CanonicalColumns
                    \/ Len(caller.rows) < SmallLen)
       \/ upload_ok = FALSE /\ caller = NoTable
    /\ annual_factor \in AnnualFactors
    /\ risk_free_rate = Zero
    /\ initial_capital \in Capitals
    /\ leverage \in Leverages
    /\ app_pc = "load"
    /\ pc = "uncalled"
    /\ BacktestEntry
    /\ strat_metrics = NoMetrics
    /\ asset_metrics = NoMetrics
    /\ trade_metrics = NoMetrics
    /\ emitted = <<>>
    /\ series = <<>>

backtestVars == <<caller, df, initial_capital, leverage, error, result,
                  trades, i, first_idx, trade_type, trade_start_idx,
                  trade_start_equity, start_date>>

(***************************************************************************)
(* Lines 58-63 and 565-566: load_data returns None for an unreadable file  *)
(* and the script reports it; otherwise run_backtest is called.            *)
(***************************************************************************)
LoadData ==
    /\ app_pc = "load"
    /\ IF upload_ok
       THEN /\ app_pc' = "backtest"
            /\ pc' = "validate"
            /\ emitted' = emitted
       ELSE /\ app_pc' = "end"
            /\ pc' = pc
            /\ emitted' = Append(emitted, Item("error", "Could not parse file."))
    /\ UNCHANGED backtestVars
    /\ UNCHANGED <<upload_ok, annual_factor, risk_free_rate, strat_metrics,
                   asset_metrics, trade_metrics, series>>

(***************************************************************************)
(* Lines 69-71: the three metric mappings of the returned table.           *)
(***************************************************************************)
ComputeMetrics ==
    /\ app_pc = "backtest"
    /\ pc = "done"
    /\ strat_metrics' =
          calculate_metrics(Column(result.rows, "strategy_return"),
                            risk_free_rate)
    /\ asset_metrics' =
          calculate_metrics(Column(result.rows, "asset_return"),
                            risk_free_rate)
    /\ trade_metrics' = calculate_trade_metrics(result.trades)
    /\ app_pc' = "kpi"
    /\ UNCHANGED backtestVars
    /\ UNCHANGED <<pc, upload_ok, annual_factor, risk_free_rate, emitted,
                   series>>

\* the five KPI cards of lines 102-106 and the keys each reads from
\* trade_metrics
KpiCards ==
    << [label |-> "Total Return", reads |-> {}],
       [label |-> "Sortino Ratio", reads |-> {}],
       [label |-> "Max Drawdown", reads |-> {}],
       [label |-> "Profit Factor", reads |-> {"Profit Factor", "Win Rate"}],
       [label |-> "Avg Duration",
        reads |-> {"Avg Duration", "Total Trades"}] >>

\* how many cards are emitted before a lookup raises KeyError
RECURSIVE CardsEmitted(_, _)
CardsEmitted(cards, tm) ==
    IF cards = <<>> THEN 0
    ELSE IF Head(cards).reads \subseteq DOMAIN tm
    THEN 1 + CardsEmitted(Tail(cards), tm)
    ELSE 0

(***************************************************************************)
(* Lines 74-106: the KPI row; each card is written to the page when its    *)
(* statement runs.                                                         *)
(***************************************************************************)
RenderKpi ==
    /\ app_pc = "kpi"
    /\ LET n == CardsEmitted(KpiCards, trade_metrics)
       IN  /\ emitted' = emitted \o <<Item("header", "Performance Overview")>>
                            \o [k \in 1..n |->
                                   Item("card", KpiCards[k].label)]
           /\ app_pc' = IF n = Len(KpiCards) THEN "charts" ELSE "raised"
    /\ UNCHANGED backtestVars
    /\ UNCHANGED <<pc, upload_ok, annual_factor, risk_free_rate,
                   strat_metrics, asset_metrics, trade_metrics, series>>

(***************************************************************************)
(* Lines 110-227: the equity, price, drawdown and forecast chart.          *)
(***************************************************************************)
RenderCharts ==
    /\ app_pc = "charts"
    /\ emitted' = Append(emitted, Item("chart", "Equity & Drawdown"))
    /\ app_pc' = "details"
    /\ UNCHANGED backtestVars
    /\ UNCHANGED <<pc, upload_ok, annual_factor, risk_free_rate,
                   strat_metrics, asset_metrics, trade_metrics, series>>

(***************************************************************************)
(* Lines 229-297: the period statistics table, then the trade analysis     *)
(* and trade log, or the warning when there is no trade.                   *)
(***************************************************************************)
RenderDetails ==
    /\ app_pc = "details"
    /\ emitted' = emitted \o <<Item("table", "Period Statistics")>> \o
          (IF result.trades # <<>>
           THEN <<Item("table", "Trade Analysis"),
                  Item("table", "Trade Log")>>
           ELSE <<Item("warning", "No trades detected.")>>)
    /\ app_pc' = "breakdowns"
    /\ UNCHANGED backtestVars
    /\ UNCHANGED <<pc, upload_ok, annual_factor, risk_free_rate,
                   strat_metrics, asset_metrics, trade_metrics, series>>

(***************************************************************************)
(* Lines 299-560: monthly heatmaps, regime chart, quarterly and yearly     *)
(* charts.                                                                 *)
(***************************************************************************)
RenderBreakdowns ==
    /\ app_pc = "breakdowns"
    /\ emitted' = emitted \o <<Item("chart", "Monthly Returns"),
                               Item("chart", "Regime"),
                               Item("chart", "Quarterly & Yearly")>>
    /\ app_pc' = "end"
    /\ UNCHANGED backtestVars
    /\ UNCHANGED <<pc, upload_ok, annual_factor, risk_free_rate,
                   strat_metrics, asset_metrics, trade_metrics, series>>

(***************************************************************************)
(* Lines 562-564: an exception raised anywhere in the try block is         *)
(* reported with st.error and st.exception.                                *)
(***************************************************************************)
Except ==
    /\ \/ app_pc = "backtest" /\ pc = "raised"
       \/ app_pc = "raised"
    /\ emitted' = Append(emitted, Item("error", "Error running backtest"))
    /\ app_pc' = "end"
    /\ UNCHANGED backtestVars
    /\ UNCHANGED <<pc, upload_ok, annual_factor, risk_free_rate,
                   strat_metrics, asset_metrics, trade_metrics, series>>

AppNext ==
    \/ LoadData
    \/ Validate
    \/ Prepare
    \/ Compute
    \/ FindFirst
    \/ ScanStep
    \/ CloseLast
    \/ Return
    \/ ComputeMetrics
    \/ RenderKpi
    \/ RenderCharts
    \/ RenderDetails
    \/ RenderBreakdowns
    \/ Except

AppSpec == AppInit /\ [][AppNext]_vars

(***************************************************************************)
(* A direct call of calculate_metrics on a return series.                  *)
(***************************************************************************)
ReturnValues == { <<-1, 1>>, <<-1, 2>>, Zero, <<1, 2>> }

RiskFreeRates == { Zero, <<1, 100>> }

SeriesInputs == UNION { [1..n -> ReturnValues] : n \in 0..MaxLen }

MetricsInit ==
    /\ series \in SeriesInputs
    /\ risk_free_rate \in RiskFreeRates
    /\ app_pc = "call"
    /\ upload_ok = TRUE
    /\ annual_factor = ANNUAL_FACTOR
    /\ strat_metrics = NoMetrics
    /\ asset_metrics = NoMetrics
    /\ trade_metrics = NoMetrics
    /\ emitted = <<>>
    /\ caller = NoTable
    /\ initial_capital \in Capitals
    /\ leverage = 1
    /\ pc = "uncalled"
    /\ BacktestEntry

MetricsCall ==
    /\ app_pc = "call"
    /\ strat_metrics' = calculate_metrics(series, risk_free_rate)
    /\ app_pc' = "end"
    /\ UNCHANGED backtestVars
    /\ UNCHANGED <<pc, upload_ok, annual_factor, risk_free_rate,
                   asset_metrics, trade_metrics, emitted, series>>

MetricsNext == MetricsCall

MetricsSpec == MetricsInit /\ [][MetricsNext]_vars

TypeOK ==
    /\ pc \in {"uncalled", "validate", "prepare", "compute", "find_first",
               "scan", "return", "raised", "done"}
    /\ error \in {"none", "ValueError", "KeyError"}
    /\ (pc = "raised") <=> (error # "none")
    /\ (pc = "done") <=> result.returned

(***************************************************************************)
(* Vocabulary of the properties.                                           *)
(***************************************************************************)
Done == pc = "done"

Computed == pc \in {"find_first", "scan", "return", "done"}

NRows == Len(df.rows)

\* 0-based row of the retained table that carries date dt
RowOf(dt) == (CHOOSE k \in 1..NRows : df.rows[k].date = dt) - 1

fc(k) == At(df.rows, k).forecast

eq(k) == At(df.rows, k).strategy_equity

RECURSIVE SumPnlAbs(_)
SumPnlAbs(ts) ==
    IF ts = <<>> THEN Zero ELSE RAdd(Head(ts).pnl_abs, SumPnlAbs(Tail(ts)))

\* rows k > 0 whose sign differs from the sign of the row before
ChangeRows == { k \in 1..(NRows - 1) : Sign(fc(k)) # Sign(fc(k - 1)) }

\* rows at which a maximal run of constant non-zero sign begins
RunStarts ==
    { k \in 0..(NRows - 1) :
        Sign(fc(k)) # 0 /\ (k = 0 \/ Sign(fc(k - 1)) # Sign(fc(k))) }

\* the row at which the sign that holds at row s stops holding (NRows - 1
\* when it holds to the end)
SignEnd(s) ==
    IF \E k \in (s + 1)..(NRows - 1) : Sign(fc(k)) # Sign(fc(s))
    THEN CHOOSE k \in (s + 1)..(NRows - 1) :
            /\ Sign(fc(k)) # Sign(fc(s))
            /\ \A j \in (s + 1)..(k - 1) : Sign(fc(j)) = Sign(fc(s))
    ELSE NRows - 1

PerturbValues == {-10, -5, 0, 5, 10}

\* the caller's rows with the forecast of file row k replaced by v
Perturb(k, v) == [caller.rows EXCEPT ![k].forecast = Val(v)]

\* the table run_backtest derives from the perturbed input
AltRows(k, v) ==
    AddColumns(Prepared(df.columns, Perturb(k, v)), initial_capital, leverage)

(***************************************************************************)
(* C1: no lookahead.  For two inputs that differ only in the defined       *)
(* value of the forecast of one row, retained as row r, strategy_return[j] *)
(* is equal in both outputs for every j # r+1 and strategy_equity[j] is    *)
(* equal for every j <= r.                                                 *)
(***************************************************************************)
NoLookahead ==
    Done =>
        \A k \in 1..Len(caller.rows), v \in PerturbValues :
            caller.rows[k].forecast # NaN =>
                LET alt == AltRows(k, v)
                    r == RowOf(caller.rows[k].date)
                IN  /\ Len(alt) = NRows
                    /\ \A j \in 0..(NRows - 1) :
                          /\ j # r + 1 =>
                                At(alt, j).strategy_return =
                                    At(df.rows, j).strategy_return
                          /\ j <= r =>
                                At(alt, j).strategy_equity =
                                    At(df.rows, j).strategy_equity

\* a perturbation of row r that does change strategy_return[r+1]
NoLookaheadWitness ==
    /\ Done
    /\ \E k \in 1..Len(caller.rows), v \in PerturbValues :
          /\ caller.rows[k].forecast # NaN
          /\ LET alt == AltRows(k, v)
                 r == RowOf(caller.rows[k].date)
             IN  /\ r + 1 < NRows
                 /\ At(alt, r + 1).strategy_return #
                        At(df.rows, r + 1).strategy_return

(***************************************************************************)
(* C2: every returned trade is a run of constant non-zero sign: the sign   *)
(* of the forecast is non-zero and the same on every row from the trade's  *)
(* start row up to the row before its end row, and the type is Long        *)
(* exactly when that sign is positive and Short exactly when negative.     *)
(***************************************************************************)
TradesAreConstantSignRuns ==
    Done =>
        \A n \in 1..Len(trades) :
            LET s == RowOf(trades[n].start_date)
                e == RowOf(trades[n].end_date)
            IN  /\ \A k \in s..(e - 1) :
                      Sign(fc(k)) # 0 /\ Sign(fc(k)) = Sign(fc(s))
                /\ (trades[n].type = "Long") <=> (Sign(fc(s)) > 0)
                /\ (trades[n].type = "Short") <=> (Sign(fc(s)) < 0)

(***************************************************************************)
(* C3: trades are never merged across a Flat gap: the number of trade      *)
(* records equals the number of maximal runs of constant non-zero sign,    *)
(* and no trade ends after the row where the sign of its start row ended.  *)
(***************************************************************************)
OneTradePerRun ==
    Done =>
        /\ Len(trades) = Cardinality(RunStarts)
        /\ \A n \in 1..Len(trades) :
              RowOf(trades[n].end_date) <= SignEnd(RowOf(trades[n].start_date))

(***************************************************************************)
(* C4: the trade ledger reconciles with the equity curve: the sum of       *)
(* pnl_abs over the trades is strategy_equity[last] minus                  *)
(* strategy_equity[first invested row], less the equity change on the rows *)
(* that follow a flat row.                                                 *)
(***************************************************************************)
GapRows == { k \in (first_idx + 1)..(NRows - 1) : Sign(fc(k - 1)) = 0 }

RECURSIVE GapChange(_)
GapChange(rs) ==
    IF rs = {} THEN Zero
    ELSE LET k == CHOOSE x \in rs : TRUE
         IN  RAdd(RSub(eq(k), eq(k - 1)), GapChange(rs \ {k}))

LedgerReconciles ==
    (Done /\ \E k \in 0..(NRows - 1) : fc(k) # 0) =>
        SumPnlAbs(trades) =
            RSub(RSub(eq(NRows - 1), eq(first_idx)), GapChange(GapRows))

(***************************************************************************)
(* C5: for every retained row k > 0, strategy_return[k] is                 *)
(* (close[k]/close[k-1] - 1) * (forecast[k-1]/10 * leverage), the position *)
(* not being clamped, and strategy_return[0] = shifted_position[0] =       *)
(* asset_return[0] = 0.                                                    *)
(***************************************************************************)
StrategyReturnFormula ==
    Computed =>
        /\ At(df.rows, 0).strategy_return = Zero
        /\ At(df.rows, 0).shifted_position = Zero
        /\ At(df.rows, 0).asset_return = Zero
        /\ \A k \in 1..(NRows - 1) :
              At(df.rows, k).strategy_return =
                  Norm((At(df.rows, k).close - At(df.rows, k - 1).close)
                          * fc(k - 1) * leverage,
                       At(df.rows, k - 1).close * 10)

\* a return earned with a position larger than one unit of exposure
StrategyReturnWitness ==
    /\ Done
    /\ \E k \in 1..(NRows - 1) :
          /\ Abs(fc(k - 1) * leverage) > 10
          /\ At(df.rows, k).strategy_return # Zero
          /\ At(df.rows, k).strategy_return # At(df.rows, k).asset_return

(***************************************************************************)
(* C6: when the sign changes at row i during an open trade, the trade      *)
(* closed there has pnl_abs = strategy_equity[i] - trade_start_equity and  *)
(* pnl = strategy_equity[i]/trade_start_equity - 1, and when the new sign  *)
(* is non-zero the trade opened at row i starts from strategy_equity[i].   *)
(***************************************************************************)
SignChangeOfOpenTrade ==
    pc = "scan" /\ i < NRows /\ trade_type # 0 /\ At(signs, i) # trade_type

FlipClosesAtRowEquity ==
    [][ SignChangeOfOpenTrade =>
          /\ Len(trades') = Len(trades) + 1
          /\ trades'[Len(trades')].pnl_abs = RSub(eq(i), trade_start_equity)
          /\ trades'[Len(trades')].pnl =
                RSub(RDiv(eq(i), trade_start_equity), One)
          /\ At(signs, i) # 0 =>
                /\ trade_start_equity' = eq(i)
                /\ trade_start_idx' = i
                /\ trade_type' = At(signs, i) ]_vars

\* a Long/Short flip has just closed a trade with a non-zero result at
\* row i-1, where the return of that row is non-zero, and reopened there
FlipClosesWitness ==
    /\ pc = "scan"
    /\ i >= 2
    /\ trade_start_idx = i - 1
    /\ fc(i - 2) # 0
    /\ Sign(fc(i - 2)) = -Sign(fc(i - 1))
    /\ trades # <<>>
    /\ trades[Len(trades)].pnl_abs # Zero
    /\ eq(i - 1) # eq(i - 2)
    /\ trade_start_equity = eq(i - 1)

(***************************************************************************)
(* C7: for a forecast without zeros and with k sign flips there are        *)
(* exactly k+1 trades; the n-th trade ends on the date of the n-th flip    *)
(* row, the next trade starts on that same date, and the last trade ends   *)
(* on the final row's date with the final row's equity.                    *)
(***************************************************************************)
NoZeroForecast == \A k \in 0..(NRows - 1) : fc(k) # 0

\* the n-th smallest element of a set of rows
NthRow(rs, n) == CHOOSE r \in rs : Cardinality({x \in rs : x < r}) = n - 1

FlipsGiveTrades ==
    (Done /\ NoZeroForecast) =>
        LET k == Cardinality(ChangeRows)
        IN  /\ Len(trades) = k + 1
            /\ \A n \in 1..k :
                  /\ trades[n].end_date = At(dates, NthRow(ChangeRows, n))
                  /\ trades[n + 1].start_date = trades[n].end_date
            /\ trades[k + 1].end_date = At(dates, NRows - 1)
            /\ trades[k + 1].pnl_abs =
                  RSub(eq(NRows - 1), eq(RowOf(trades[k + 1].start_date)))

\* two flips, three trades, the middle one with a non-zero result
FlipsGiveTradesWitness ==
    /\ Done
    /\ NoZeroForecast
    /\ Cardinality(ChangeRows) = 2
    /\ Len(trades) = 3
    /\ trades[2].pnl_abs # Zero

(***************************************************************************)
(* C8: a forecast that is zero on every retained row gives an empty trade  *)
(* list and strategy_equity[k] = initial_capital on every row.             *)
(***************************************************************************)
AllZeroForecast == \A k \in 0..(NRows - 1) : fc(k) = 0

NeverInvestedIsFlat ==
    (Done /\ AllZeroForecast) =>
        /\ result.trades = <<>>
        /\ \A k \in 1..Len(result.rows) :
              result.rows[k].strategy_equity = RInt(initial_capital)

\* never invested while the asset itself moved
NeverInvestedWitness ==
    /\ Done
    /\ AllZeroForecast
    /\ NRows >= 2
    /\ At(df.rows, NRows - 1).asset_equity # RInt(initial_capital)

(***************************************************************************)
(* C9: both equity curves compound from initial_capital: row 0 holds       *)
(* initial_capital and row k > 0 holds the value of row k-1 times          *)
(* (1 + return[k]).                                                        *)
(***************************************************************************)
EquityCompounds ==
    Computed =>
        /\ At(df.rows, 0).strategy_equity = RInt(initial_capital)
        /\ At(df.rows, 0).asset_equity = RInt(initial_capital)
        /\ \A k \in 1..(NRows - 1) :
              /\ eq(k) = RMul(eq(k - 1),
                              RAdd(One, At(df.rows, k).strategy_return))
              /\ At(df.rows, k).asset_equity =
                    RMul(At(df.rows, k - 1).asset_equity,
                         RAdd(One, At(df.rows, k).asset_return))

\* three rows on which both curves moved twice
EquityCompoundsWitness ==
    /\ Done
    /\ NRows >= 3
    /\ eq(1) # eq(0)
    /\ eq(2) # eq(1)
    /\ At(df.rows, 2).asset_equity # At(df.rows, 1).asset_equity
    /\ At(df.rows, 1).asset_equity # At(df.rows, 0).asset_equity

(***************************************************************************)
(* C10: run_backtest raises the validation error and returns nothing when  *)
(* the input has no 'close' or no 'forecast' column or no row with a       *)
(* defined forecast; otherwise, given a 'date' column, it returns a        *)
(* non-empty row sequence.                                                 *)
(***************************************************************************)
InvalidInput ==
    \/ ~HasColumn(LowerColumns(caller.columns), "close")
    \/ ~HasColumn(LowerColumns(caller.columns), "forecast")
    \/ \A k \in 1..Len(caller.rows) : caller.rows[k].forecast = NaN

Terminal == pc \in {"raised", "done"}

ValidationOutcome ==
    /\ InvalidInput =>
          /\ pc \in {"validate", "prepare", "raised"}
          /\ ~result.returned
          /\ pc = "raised" => error = "ValueError"
    /\ (~InvalidInput /\ HasColumn(LowerColumns(caller.columns), "date")) =>
          /\ error = "none"
          /\ pc # "raised"
          /\ Done => (result.returned /\ result.rows # <<>>)

\* a table whose rows all lack a forecast was rejected after the filter
ValidationWitness ==
    /\ pc = "raised"
    /\ error = "ValueError"
    /\ HasColumn(caller.columns, "close")
    /\ HasColumn(caller.columns, "forecast")
    /\ Len(caller.rows) >= 2
    /\ df.rows = <<>>

(***************************************************************************)
(* C11: run_backtest has no side effect on its input: no step of a call,   *)
(* returning or raising, changes the caller's table (column names, row     *)
(* order, values).                                                         *)
(***************************************************************************)
InputUntouched == [][caller' = caller]_vars

(***************************************************************************)
(* C12: an input with 'close' and 'forecast' and at least one defined      *)
(* forecast but no date column is processed successfully: the call does    *)
(* not raise and returns its rows.                                         *)
(***************************************************************************)
NoDateColumn == ~HasColumn(LowerColumns(caller.columns), "date")

NoDateStillSucceeds ==
    (NoDateColumn /\ ~InvalidInput) =>
        /\ pc # "raised"
        /\ error = "none"

(***************************************************************************)
(* C13: the annualization factor chosen in the dashboard is the one the    *)
(* period metrics use: CAGR (through years = len(returns)/factor),         *)
(* Volatility and the annualized mean (through Sharpe) of the strategy and *)
(* of the asset are the values computed with annual_factor.                *)
(***************************************************************************)
MetricsComputed == app_pc \in {"kpi", "charts", "details", "breakdowns",
                               "raised", "end"} /\ strat_metrics # NoMetrics

UsesFactor(metrics, returns) ==
    /\ metrics["CAGR"] = Cagr(returns, annual_factor)
    /\ metrics["Volatility"] = Volatility(returns, annual_factor)
    /\ metrics["Sharpe Ratio"] =
          RatioOrZero(MeanAnnual(returns, annual_factor), risk_free_rate,
                      Volatility(returns, annual_factor))

AnnualFactorIsCallerSupplied ==
    MetricsComputed =>
        /\ UsesFactor(strat_metrics, Column(result.rows, "strategy_return"))
        /\ UsesFactor(asset_metrics, Column(result.rows, "asset_return"))

(***************************************************************************)
(* C14: for every non-empty trade list Profit Factor is the sum of the     *)
(* positive pnl_abs divided by the absolute value of the sum of the        *)
(* negative pnl_abs, and +infinity when that denominator is 0, also when   *)
(* the equity has been negative.                                           *)
(***************************************************************************)
ProfitFactorByPnlAbs(ts) ==
    LET gains == SelectSeq(Column(ts, "pnl_abs"), IsPositive)
        lost == SelectSeq(Column(ts, "pnl_abs"), IsNegative)
    IN  IF RSum(lost) = Zero THEN PosInf
        ELSE Num(RDiv(RSum(gains), RAbs(RSum(lost))))

ProfitFactorOfPnlAbs ==
    (MetricsComputed /\ result.trades # <<>>) =>
        trade_metrics["Profit Factor"] = ProfitFactorByPnlAbs(result.trades)

(***************************************************************************)
(* C15: calculate_trade_metrics returns the keys Total Trades, Win Rate,   *)
(* Avg Trade, Profit Factor, Expectancy, all 0, for an empty trade list,   *)
(* and the keys Total Trades, Win Rate, Avg Trade, Avg Win, Avg Loss,      *)
(* Avg Duration, Profit Factor for a non-empty one, with Total Trades the  *)
(* number of trades and Win Rate = count(pnl > 0) / total.                 *)
(***************************************************************************)
CountWins(ts) == Cardinality({n \in 1..Len(ts) : ts[n].pnl[1] > 0})

TradeMetricsKeys ==
    MetricsComputed =>
        IF result.trades = <<>>
        THEN /\ DOMAIN trade_metrics =
                   {"Total Trades", "Win Rate", "Avg Trade", "Profit Factor",
                    "Expectancy"}
             /\ \A key \in DOMAIN trade_metrics :
                   trade_metrics[key] = Num(Zero)
        ELSE /\ DOMAIN trade_metrics =
                   {"Total Trades", "Win Rate", "Avg Trade", "Avg Win",
                    "Avg Loss", "Avg Duration", "Profit Factor"}
             /\ trade_metrics["Total Trades"] =
                   Num(RInt(Len(result.trades)))
             /\ trade_metrics["Win Rate"] =
                   Num(Norm(CountWins(result.trades), Len(result.trades)))

\* a trade list with a winner and a loser whose mapping has been computed
TradeMetricsWitness ==
    /\ MetricsComputed
    /\ Len(result.trades) = 2
    /\ trade_metrics["Win Rate"] = Num(<<1, 2>>)
    /\ trade_metrics["Total Trades"] = Num(RInt(2))

(***************************************************************************)
(* C16: degenerate denominators give the fallback value: Sharpe is 0 when  *)
(* Volatility is 0, Sortino is 0 when the deviation of the negative        *)
(* returns is 0, Calmar is 0 when Max Drawdown is 0, CAGR is 0 when        *)
(* years <= 0; and no division of calculate_metrics has a divisor of 0,    *)
(* whatever the return series.                                             *)
(***************************************************************************)
MetricsReturned == app_pc = "end" /\ strat_metrics # NoMetrics

DownsideStd(returns) ==
    ScaleStd(Std(SelectSeq(returns, IsNegative)), ANNUAL_FACTOR)

FallbacksApplied ==
    /\ IsZero(strat_metrics["Volatility"]) =>
          strat_metrics["Sharpe Ratio"] = Num(Zero)
    /\ IsZero(DownsideStd(series)) =>
          strat_metrics["Sortino Ratio"] = Num(Zero)
    /\ IsZero(strat_metrics["Max Drawdown"]) =>
          strat_metrics["Calmar Ratio"] = Num(Zero)
    /\ ~RLess(Zero, Years(series, ANNUAL_FACTOR)) =>
          strat_metrics["CAGR"] = Num(Zero)

DegenerateDenominatorsSafe ==
    MetricsReturned =>
        /\ FallbacksApplied
        /\ \A d \in MetricsDivisors(series, risk_free_rate) : ~IsZero(d)

(***************************************************************************)
(* C17: a dashboard run never shows partial results: when an error message *)
(* is emitted, no KPI card, chart or table of the run was emitted before   *)
(* it.                                                                     *)
(***************************************************************************)
Results == {"card", "chart", "table"}

NoPartialResults ==
    \A k \in 1..Len(emitted) :
        emitted[k].kind = "error" =>
            \A j \in 1..(k - 1) : emitted[j].kind \notin Results

(***************************************************************************)
(* C18: a run on an upload whose forecast is never non-zero does not       *)
(* enter the error handler: the keys the KPI row reads are in the          *)
(* trade-metrics mapping of the empty trade list, and the run ends having  *)
(* emitted the 'No trades detected.' warning and no error.                 *)
(***************************************************************************)
KpiKeys == {"Profit Factor", "Win Rate", "Avg Duration", "Total Trades"}

NeverInvestedRunCompletes ==
    (app_pc = "end" /\ Done /\ AllZeroForecast) =>
        /\ KpiKeys \subseteq DOMAIN trade_metrics
        /\ \A k \in 1..Len(emitted) : emitted[k].kind # "error"
        /\ \E k \in 1..Len(emitted) :
              emitted[k] = Item("warning", "No trades detected.")

(***************************************************************************)
(* C19: the duration of every trade is the row of its end_date minus the   *)
(* row of its start_date, for the trades closed by a sign change and for   *)
(* the trade closed at the final row.                                      *)
(***************************************************************************)
DurationIsRowDistance ==
    Done =>
        \A n \in 1..Len(trades) :
            trades[n].duration =
                RowOf(trades[n].end_date) - RowOf(trades[n].start_date)

(***************************************************************************)
(* C20: every trade spans at least one period: the row of its end_date is  *)
(* strictly after the row of its start_date.                               *)
(***************************************************************************)
NoZeroLengthTrade ==
    Done =>
        \A n \in 1..Len(trades) :
            RowOf(trades[n].end_date) > RowOf(trades[n].start_date)

(***************************************************************************)
(* C20 as amended: no trade ends before it starts, and a trade ends on its *)
(* start row only if it is the last record, was opened on the final row    *)
(* and was closed there by the forced close, with a result of 0.           *)
(***************************************************************************)
ZeroLengthOnlyAtFinalRow ==
    Done =>
        \A n \in 1..Len(trades) :
            LET s == RowOf(trades[n].start_date)
                e == RowOf(trades[n].end_date)
            IN  /\ e >= s
                /\ e = s =>
                      /\ n = Len(trades)
                      /\ s = NRows - 1
                      /\ trades[n].pnl = Zero
                      /\ trades[n].pnl_abs = Zero

\* a sign flip on the final row: a trade over two periods with a non-zero
\* result, then a zero-length trade opened and closed on the final row
ZeroLengthWitness ==
    /\ Done
    /\ NRows = 3
    /\ NoZeroForecast
    /\ Len(trades) = 2
    /\ RowOf(trades[1].end_date) = 2
    /\ trades[1].pnl_abs # Zero
    /\ trades[2].start_date = trades[2].end_date
    /\ Sign(fc(2)) # Sign(fc(1))

(***************************************************************************)
(* C21: strategy equity does not move while flat: for every row k > 0     *)
(* whose previous forecast is 0, strategy_equity[k] = strategy_equity[k-1].*)
(* So the equity basis of the first trade is initial_capital wherever it   *)
(* starts, and the equity at the row where a trade is re-opened after a    *)
(* flat gap, which is the basis of the re-opened trade, is the exit equity *)
(* of the trade closed before the gap.                                     *)
(***************************************************************************)
\* the row at which the trade running before the flat gap ending at row r
\* was closed: the row after the last non-zero forecast before r
GapCloseRow(r) ==
    1 + CHOOSE p \in 0..(r - 1) :
            /\ Sign(fc(p)) # 0
            /\ \A q \in (p + 1)..(r - 1) : Sign(fc(q)) = 0

\* rows at which a trade is re-opened after a flat gap
ReopenRows ==
    { r \in 1..(NRows - 1) :
        /\ Sign(fc(r)) # 0
        /\ Sign(fc(r - 1)) = 0
        /\ \E p \in 0..(r - 1) : Sign(fc(p)) # 0 }

EquityFlatWhileFlat ==
    /\ Computed =>
          /\ \A k \in 1..(NRows - 1) : fc(k - 1) = 0 => eq(k) = eq(k - 1)
          /\ \A r \in ReopenRows : eq(r) = eq(GapCloseRow(r))
    /\ (pc = "scan" /\ trades = <<>>) =>
          trade_start_equity = RInt(initial_capital)
    /\ (pc = "scan" /\ trade_type # 0 /\ trade_start_idx \in ReopenRows) =>
          trade_start_equity = eq(GapCloseRow(trade_start_idx))
    /\ (Done /\ trades # <<>>) =>
          RSub(eq(RowOf(trades[1].end_date)), trades[1].pnl_abs) =
              RInt(initial_capital)

\* a trade with a non-zero result, a flat row, and a trade re-opened on the
\* final row
EquityFlatWitness ==
    /\ Done
    /\ NRows = 3
    /\ Sign(fc(0)) # 0
    /\ fc(1) = 0
    /\ Sign(fc(2)) # 0
    /\ eq(1) # RInt(initial_capital)
    /\ eq(2) = eq(1)
    /\ trades # <<>>
    /\ trades[1].pnl_abs # Zero

(***************************************************************************)
(* C22: for a never-invested input of at least two rows (every strategy    *)
(* return is 0) every value of the strategy period metrics is a defined    *)
(* number: Sharpe, Sortino, Calmar and Max Drawdown are 0 and Avg Drawdown *)
(* is a defined value.                                                     *)
(***************************************************************************)
AllReturnsZero ==
    \A k \in 1..Len(result.rows) : result.rows[k].strategy_return = Zero

NeverInvestedMetricsDefined ==
    (MetricsComputed /\ Len(result.rows) >= 2 /\ AllReturnsZero) =>
        /\ \A key \in DOMAIN strat_metrics : strat_metrics[key].kind = "num"
        /\ strat_metrics["Sharpe Ratio"] = Num(Zero)
        /\ strat_metrics["Sortino Ratio"] = Num(Zero)
        /\ strat_metrics["Calmar Ratio"] = Num(Zero)
        /\ strat_metrics["Max Drawdown"] = Num(Zero)

(***************************************************************************)
(* C23: for every successful run the strategy Total Return of the period   *)
(* metrics equals strategy_equity[last] / initial_capital - 1, and the     *)
(* asset Total Return equals asset_equity[last] / initial_capital - 1.     *)
(***************************************************************************)
LastRow == result.rows[Len(result.rows)]

OverCapital(equity) == Num(RSub(RDiv(equity, RInt(initial_capital)), One))

TotalReturnMatchesEquity ==
    MetricsComputed =>
        /\ strat_metrics["Total Return"] = OverCapital(LastRow.strategy_equity)
        /\ asset_metrics["Total Return"] = OverCapital(LastRow.asset_equity)

\* three rows on which the strategy gained or lost twice, so that the
\* compounded return differs from the sum of the returns
TotalReturnWitness ==
    /\ MetricsComputed
    /\ Len(result.rows) = 3
    /\ result.rows[2].strategy_return # Zero
    /\ result.rows[3].strategy_return # Zero
    /\ strat_metrics["Total Return"] # Num(Zero)
    /\ asset_metrics["Total Return"] # strat_metrics["Total Return"]

====
